---- MODULE Spec2Model ----
(***************************************************************************)
(* Model of the veifka key-value server (src/src/main.rs): the command     *)
(* dispatcher handle_command, the per-connection loop handle_client and    *)
(* the partition they share.                                               *)
(*                                                                         *)
(* Bytes and chars are numbers (a byte 0..255, a char its code point), a   *)
(* byte string is a sequence of bytes, a BytesFrame is a record tagged by  *)
(* its variant.  A formatted error text is the pair of its format string   *)
(* and the value formatted into it.                                        *)
(***************************************************************************)
EXTENDS Integers, Sequences, FiniteSets, TLC

\* Longest argument list (elements after the command name) of a request.
MaxArgs == 2

--------------------------------------------------------------------------
\* Byte strings used as command names, keys and values.

Str_PING == <<80, 73, 78, 71>>
Str_SET == <<83, 69, 84>>
Str_GET == <<71, 69, 84>>
Str_DEL == <<68, 69, 76>>
Str_EXISTS == <<69, 88, 73, 83, 84, 83>>
Str_MGET == <<77, 71, 69, 84>>
Str_set == <<115, 101, 116>>
Str_get == <<103, 101, 116>>
Str_foo == <<102, 111, 111>>
\* a name that is not UTF-8: the single byte 0xFF
Str_xFF == <<255>>

\* "", "a", "A": the empty string, and two keys that differ only in case
ByteStrings == {<<>>, <<97>>, <<65>>}

\* Command names a peer sends.
Names ==
  {Str_PING, Str_SET, Str_set, Str_GET, Str_DEL, Str_EXISTS, Str_MGET,
   Str_foo, Str_xFF}

--------------------------------------------------------------------------
\* BytesFrame (redis_protocol::resp2::types::BytesFrame) and its variants.

SimpleString(b) == [type |-> "SimpleString", bytes |-> b]
Error(fmt, arg) == [type |-> "Error", fmt |-> fmt, arg |-> arg]
Integer(n) == [type |-> "Integer", int |-> n]
BulkString(b) == [type |-> "BulkString", bytes |-> b]
Array(fs) == [type |-> "Array", elems |-> fs]
Null == [type |-> "Null"]

\* Option<Slice> returned by PartitionHandle::get
None == [some |-> FALSE, val |-> <<>>]
Some(v) == [some |-> TRUE, val |-> v]

--------------------------------------------------------------------------
\* String::from_utf8_lossy(bytes).to_ascii_uppercase()

\* from_utf8_lossy on one byte of the modelled alphabet: an ASCII byte is its
\* own char; 0xC0, 0xC1 and 0xF5..0xFF start no UTF-8 sequence and each
\* becomes U+FFFD.  (Multi-byte sequences are outside the modelled alphabet.)
LossyChar(b) == IF b < 128 THEN b ELSE 65533

FromUtf8Lossy(bytes) == [i \in 1..Len(bytes) |-> LossyChar(bytes[i])]

UpperChar(c) == IF c >= 97 /\ c <= 122 THEN c - 32 ELSE c

ToAsciiUppercase(s) == [i \in 1..Len(s) |-> UpperChar(s[i])]

\* CommandName that keeps the letter case of the name.
CommandNameAsReceived(bytes) == FromUtf8Lossy(bytes)

CommandName(bytes) == ToAsciiUppercase(FromUtf8Lossy(bytes))

--------------------------------------------------------------------------
\* handle_command, the part that runs before any storage call.

ErrorText(msg) == Error(msg, <<>>)

\* commands[1..].iter().filter_map(BulkString(bytes) => Some(bytes), _ => None)
RECURSIVE BulkKeys(_)
BulkKeys(fs) ==
  IF fs = <<>> THEN <<>>
  ELSE IF Head(fs).type = "BulkString"
       THEN <<Head(fs).bytes>> \o BulkKeys(Tail(fs))
       ELSE BulkKeys(Tail(fs))

\* What the synchronous part of handle_command ends in: a reply, the todo!()
\* panic, or a closure handed to tokio::task::spawn_blocking.
Reply(f) == [kind |-> "reply", reply |-> f]
Panic == [kind |-> "panic"]
Job(cmd, keys, value) ==
  [kind |-> "job",
   job |-> [cmd |-> cmd, keys |-> keys, value |-> value, deleted |-> 0,
            results |-> <<>>, fail |-> "none"]]

NoJob ==
  [cmd |-> "", keys |-> <<>>, value |-> <<>>, deleted |-> 0,
   results |-> <<>>, fail |-> "none"]

\* CmdSet with the key's type checked before the number of arguments.
CmdSetTypeFirst(commands) ==
  IF Len(commands) >= 2 /\ commands[2].type # "BulkString"
  THEN Reply(ErrorText("ERR Invalid key type"))
  ELSE IF Len(commands) # 3
  THEN Reply(ErrorText("ERR Wrong number of arguments for SET"))
  ELSE IF commands[3].type # "BulkString"
  THEN Reply(ErrorText("ERR Invalid value type"))
  ELSE Job("SET", <<commands[2].bytes>>, commands[3].bytes)

CmdSet(commands) ==
  IF Len(commands) # 3
  THEN Reply(ErrorText("ERR Wrong number of arguments for SET"))
  ELSE IF commands[2].type # "BulkString"
  THEN Reply(ErrorText("ERR Invalid key type"))
  ELSE IF commands[3].type # "BulkString"
  THEN Reply(ErrorText("ERR Invalid value type"))
  ELSE Job("SET", <<commands[2].bytes>>, commands[3].bytes)

CmdGet(commands) ==
  IF Len(commands) # 2
  THEN Reply(ErrorText("ERR Wrong number of arguments for GET"))
  ELSE IF commands[2].type # "BulkString"
  THEN Reply(ErrorText("ERR Invalid key type"))
  ELSE Job("GET", <<commands[2].bytes>>, <<>>)

CmdDel(commands) ==
  IF Len(commands) < 2
  THEN Reply(ErrorText("ERR Wrong number of arguments for DEL"))
  ELSE Job("DEL", BulkKeys(Tail(commands)), <<>>)

CmdExists(commands) ==
  IF Len(commands) # 2
  THEN Reply(ErrorText("ERR Wrong number of arguments for EXISTS"))
  ELSE IF commands[2].type # "BulkString"
  THEN Reply(ErrorText("ERR Invalid key type"))
  ELSE Job("EXISTS", <<commands[2].bytes>>, <<>>)

CmdMget(commands) ==
  IF Len(commands) < 2
  THEN Reply(ErrorText("ERR Wrong number of arguments for MGET"))
  ELSE Job("MGET", BulkKeys(Tail(commands)), <<>>)

UnknownCommand(cmd) == Reply(Error("ERR unknown command '{}'", cmd))

\* MatchCmd whose PING takes no argument.
MatchCmdPingArity(cmd, commands) ==
  IF cmd = Str_PING
  THEN IF Len(commands) # 1
       THEN Reply(ErrorText("ERR wrong number of arguments for 'PING' command"))
       ELSE Reply(SimpleString(<<80, 79, 78, 71>>))
  ELSE IF cmd = Str_SET THEN CmdSet(commands)
  ELSE IF cmd = Str_GET THEN CmdGet(commands)
  ELSE IF cmd = Str_DEL THEN CmdDel(commands)
  ELSE IF cmd = Str_EXISTS THEN CmdExists(commands)
  ELSE IF cmd = Str_MGET THEN CmdMget(commands)
  ELSE UnknownCommand(cmd)

\* MatchCmd whose PING probes the partition with a read.
MatchCmdPingProbes(cmd, commands) ==
  IF cmd = Str_PING THEN Job("GET", <<<<>>>>, <<>>)
  ELSE IF cmd = Str_SET THEN CmdSet(commands)
  ELSE IF cmd = Str_GET THEN CmdGet(commands)
  ELSE IF cmd = Str_DEL THEN CmdDel(commands)
  ELSE IF cmd = Str_EXISTS THEN CmdExists(commands)
  ELSE IF cmd = Str_MGET THEN CmdMget(commands)
  ELSE UnknownCommand(cmd)

\* match cmd.as_str() { ... }
MatchCmd(cmd, commands) ==
  IF cmd = Str_PING THEN Reply(SimpleString(<<80, 79, 78, 71>>))
  ELSE IF cmd = Str_SET THEN CmdSet(commands)
  ELSE IF cmd = Str_GET THEN CmdGet(commands)
  ELSE IF cmd = Str_DEL THEN CmdDel(commands)
  ELSE IF cmd = Str_EXISTS THEN CmdExists(commands)
  ELSE IF cmd = Str_MGET THEN CmdMget(commands)
  ELSE UnknownCommand(cmd)

\* ArrayCommand that tests the first element once, for emptiness and type.
ArrayCommandOneCheck(commands) ==
  IF commands # <<>> /\ commands[1].type \in {"BulkString", "SimpleString"}
  THEN MatchCmd(CommandName(commands[1].bytes), commands)
  ELSE Reply(ErrorText("ERR invalid command type"))

\* BytesFrame::Array(commands) => { ... }
ArrayCommand(commands) ==
  IF commands = <<>> THEN Reply(ErrorText("ERR Empty command"))
  ELSE IF commands[1].type \in {"BulkString", "SimpleString"}
  THEN MatchCmd(CommandName(commands[1].bytes), commands)
  ELSE Reply(ErrorText("ERR invalid command type"))

\* match frame { ... }: every variant but Array is todo!()
HandleCommand(frame) ==
  IF frame.type = "Array" THEN ArrayCommand(frame.elems) ELSE Panic

--------------------------------------------------------------------------
\* The closure handle_command runs on the blocking pool, one storage call of
\* the partition at a time, and the reply it is turned into.

\* Remove that stores an empty value in place of removing the key.
RemoveAsEmptyValue(st, key) == [st EXCEPT ![key] = Some(<<>>)]

\* Insert into a partition whose keys are folded to upper case.
InsertFolded(st, key, value) ==
  [st EXCEPT ![ToAsciiUppercase(key)] = Some(value)]

\* PartitionHandle::insert / remove on the shared partition
Insert(st, key, value) == [st EXCEPT ![key] = Some(value)]
Remove(st, key) == [st EXCEPT ![key] = None]

\* PushResult that puts the newest result first.
PushResultFront(results, opt) == <<opt>> \o results

\* results.push(..) of the MGET closure (and the single result of GET, EXISTS)
PushResult(results, opt) == Append(results, opt)

\* StorageCall whose DEL closure returns at the first failed remove.
StorageCallDelStops(st, j, outcome) ==
  LET key == Head(j.keys)
      stop(how) == [j EXCEPT !.keys = <<>>, !.fail = how]
  IN
  IF outcome = "panic" THEN [store |-> st, job |-> stop("join")]
  ELSE IF j.cmd = "SET" THEN
    IF outcome = "ok"
    THEN [store |-> Insert(st, key, j.value), job |-> [j EXCEPT !.keys = <<>>]]
    ELSE [store |-> st, job |-> stop("err")]
  ELSE IF j.cmd = "DEL" THEN
    IF outcome = "ok"
    THEN [store |-> Remove(st, key),
          job |-> [j EXCEPT !.keys = Tail(@), !.deleted = @ + 1]]
    ELSE [store |-> st, job |-> [j EXCEPT !.keys = <<>>]]
  ELSE
    IF outcome = "ok"
    THEN [store |-> st,
          job |-> [j EXCEPT !.keys = Tail(@),
                            !.results = PushResult(@, st[key])]]
    ELSE [store |-> st, job |-> stop("err")]

\* StorageCall whose MGET closure takes a failed read for an absent key and
\* reads on.
StorageCallMgetTolerant(st, j, outcome) ==
  LET key == Head(j.keys)
      stop(how) == [j EXCEPT !.keys = <<>>, !.fail = how]
  IN
  IF outcome = "panic" THEN [store |-> st, job |-> stop("join")]
  ELSE IF j.cmd = "SET" THEN
    IF outcome = "ok"
    THEN [store |-> Insert(st, key, j.value), job |-> [j EXCEPT !.keys = <<>>]]
    ELSE [store |-> st, job |-> stop("err")]
  ELSE IF j.cmd = "DEL" THEN
    IF outcome = "ok"
    THEN [store |-> Remove(st, key),
          job |-> [j EXCEPT !.keys = Tail(@), !.deleted = @ + 1]]
    ELSE [store |-> st, job |-> [j EXCEPT !.keys = Tail(@)]]
  ELSE
    IF outcome = "ok"
    THEN [store |-> st,
          job |-> [j EXCEPT !.keys = Tail(@),
                            !.results = PushResult(@, st[key])]]
    ELSE IF j.cmd = "MGET"
    THEN [store |-> st,
          job |-> [j EXCEPT !.keys = Tail(@),
                            !.results = PushResult(@, None)]]
    ELSE [store |-> st, job |-> stop("err")]

\* One storage call of job j on partition st; outcome is "ok", "err" (the call
\* returns Err(fjall::Error)) or "panic" (the closure unwinds: a JoinError).
\* The result is the partition and the job after the call.
StorageCall(st, j, outcome) ==
  LET key == Head(j.keys)
      stop(how) == [j EXCEPT !.keys = <<>>, !.fail = how]
  IN
  IF outcome = "panic" THEN [store |-> st, job |-> stop("join")]
  ELSE IF j.cmd = "SET" THEN
    IF outcome = "ok"
    THEN [store |-> Insert(st, key, j.value), job |-> [j EXCEPT !.keys = <<>>]]
    ELSE [store |-> st, job |-> stop("err")]
  ELSE IF j.cmd = "DEL" THEN
    IF outcome = "ok"
    THEN [store |-> Remove(st, key),
          job |-> [j EXCEPT !.keys = Tail(@), !.deleted = @ + 1]]
    ELSE [store |-> st, job |-> [j EXCEPT !.keys = Tail(@)]]
  ELSE \* GET, EXISTS, MGET: partition.get(&key)
    IF outcome = "ok"
    THEN [store |-> st,
          job |-> [j EXCEPT !.keys = Tail(@),
                            !.results = PushResult(@, st[key])]]
    ELSE [store |-> st, job |-> stop("err")]

\* ValueFrame that answers an empty value as if the key were absent.
ValueFrameEmptyAsNull(opt) ==
  IF opt.some /\ opt.val # <<>> THEN BulkString(opt.val) ELSE Null

\* Some(value) => BulkString(value.to_vec()), None => Null
ValueFrame(opt) == IF opt.some THEN BulkString(opt.val) ELSE Null

ValueFrames(results) == [i \in 1..Len(results) |-> ValueFrame(results[i])]

\* JobReply whose EXISTS takes a key with an empty value for absent.
JobReplyExistsNonEmpty(j) ==
  IF j.fail = "join" THEN ErrorText("ERR task error: {:?}")
  ELSE IF j.cmd = "SET" THEN
    IF j.fail = "err" THEN ErrorText("ERR SET error: {:?}")
    ELSE SimpleString(<<79, 75>>)
  ELSE IF j.cmd = "GET" THEN
    IF j.fail = "err" THEN ErrorText("ERR GET error: {:?}")
    ELSE ValueFrame(j.results[1])
  ELSE IF j.cmd = "DEL" THEN Integer(j.deleted)
  ELSE IF j.cmd = "EXISTS" THEN
    IF j.fail = "err" THEN ErrorText("ERR EXISTS error: {:?}")
    ELSE IF j.results[1].some /\ j.results[1].val # <<>>
    THEN Integer(1) ELSE Integer(0)
  ELSE
    IF j.fail = "err" THEN ErrorText("ERR MGET error: {:?}")
    ELSE Array(ValueFrames(j.results))

\* match spawn_blocking(...).await { Ok(Ok(..)) .., Ok(Err(e)) .., Err(e) .. }
JobReply(j) ==
  IF j.fail = "join" THEN ErrorText("ERR task error: {:?}")
  ELSE IF j.cmd = "SET" THEN
    IF j.fail = "err" THEN ErrorText("ERR SET error: {:?}")
    ELSE SimpleString(<<79, 75>>)
  ELSE IF j.cmd = "GET" THEN
    IF j.fail = "err" THEN ErrorText("ERR GET error: {:?}")
    ELSE ValueFrame(j.results[1])
  ELSE IF j.cmd = "DEL" THEN Integer(j.deleted)
  ELSE IF j.cmd = "EXISTS" THEN
    IF j.fail = "err" THEN ErrorText("ERR EXISTS error: {:?}")
    ELSE IF j.results[1].some THEN Integer(1) ELSE Integer(0)
  ELSE \* MGET
    IF j.fail = "err" THEN ErrorText("ERR MGET error: {:?}")
    ELSE Array(ValueFrames(j.results))

\* BytesFrame::Error(format!("ERR {:?}", e)) for a decode error e
DecodeErrorReply == ErrorText("ERR {:?}")

--------------------------------------------------------------------------
\* Requests a peer sends.

IntegerArg == Integer(1)

HeadFrames ==
  {BulkString(n) : n \in Names} \cup {SimpleString(Str_get), IntegerArg}

ArgFrames == {BulkString(b) : b \in ByteStrings} \cup {IntegerArg}

ArgLists == UNION {[1..n -> ArgFrames] : n \in 0..MaxArgs}

ArrayFrames ==
  {Array(<<>>)} \cup {Array(<<h>> \o as) : h \in HeadFrames, as \in ArgLists}

NonArrayFrames ==
  {SimpleString(Str_PING), ErrorText("ERR"), IntegerArg, BulkString(Str_PING),
   Null}

Frames == ArrayFrames \cup NonArrayFrames

--------------------------------------------------------------------------
\* State.

Conns == {1, 2}

VARIABLES
  server,  \* where main is: "Start", "Keyspace", "Partition", "Listening",
           \* or "Exited" after a startup failure
  store,   \* the partition: key -> Option<value>
  conn,    \* per connection: the state of its handle_client task
  client,  \* per key, what the replies so far have told the peers
  ds       \* the DataStorePartition handles of datastore.rs and what they
           \* point to

vars == <<server, store, conn, client, ds>>

\* A partition that holds no key.
EmptyStore == [k \in ByteStrings |-> None]

\* A connection main has not accepted yet.
IdleConn ==
  [phase |-> "Idle",      \* Idle, Reading, Blocking, Writing or Closed
   req |-> Null,          \* the frame handle_command was called with
   pre |-> EmptyStore,    \* the partition when it was called
   job |-> NoJob,         \* the closure on the blocking pool
   reply |-> Null,        \* the frame handed to framed.send
   errored |-> FALSE,     \* the decoder has returned an error
   owed |-> FALSE,        \* a decoded request has no written reply yet
   errReplies |-> 0,      \* decode-error replies written
   late |-> FALSE,        \* a frame was dispatched after a decode error
   exit |-> "none",       \* how the task ended: "ok", "err" or "panic"
   calls |-> 0,           \* storage calls made for the request
   oks |-> 0,             \* storage calls of the request that returned Ok
   prevError |-> FALSE,   \* the last reply written was an Error to a request
   peerGone |-> FALSE,    \* the peer has closed its end of the socket
   goneInCall |-> FALSE,  \* it did so with the request's storage call pending
   writeFailed |-> FALSE, \* framed.send returned Err (req and pre are kept)
   busyAtAccept |-> FALSE] \* another handler was running at the accept

UntoldKey == [st |-> "unset", val |-> <<>>]

\* DataStorePartition values: Handles names them, and handle[h] is the
\* PartitionHandle the Arc of h points to (0 before h is constructed).
Handles == {1, 2}

\* No DataStorePartition constructed and no call made: parts are the
\* partitions behind the Arcs, last the latest set or delete of each key
\* (and the handle it went through), read the results of the latest get and
\* exists of one key through one handle.
NoDataStore ==
  [parts |-> [p \in Handles |-> EmptyStore],
   handle |-> [h \in Handles |-> 0],
   last |-> [k \in ByteStrings |-> [st |-> "unset", val |-> <<>>, by |-> 0]],
   read |-> [done |-> FALSE]]

Init ==
  /\ server = "Start"
  /\ store = EmptyStore
  /\ conn = [c \in Conns |-> IdleConn]
  /\ client = [k \in ByteStrings |-> UntoldKey]
  /\ ds = NoDataStore

--------------------------------------------------------------------------
\* main

\* init_keyspace("test_keyspace")?
InitKeyspace(ok) ==
  /\ server = "Start"
  /\ server' = IF ok THEN "Keyspace" ELSE "Exited"
  /\ UNCHANGED <<ds, store, conn, client>>

\* create_partition(&keyspace, "test_partition")?
CreatePartition(ok) ==
  /\ server = "Keyspace"
  /\ server' = IF ok THEN "Partition" ELSE "Exited"
  /\ UNCHANGED <<ds, store, conn, client>>

\* TcpListener::bind("127.0.0.1:6379").await.expect(..)
Bind(ok) ==
  /\ server = "Partition"
  /\ server' = IF ok THEN "Listening" ELSE "Exited"
  /\ UNCHANGED <<ds, store, conn, client>>

\* Accept of a loop that runs beside the startup instead of after it.
AcceptAnyTime(c) ==
  /\ conn[c].phase = "Idle"
  /\ conn' = [conn EXCEPT ![c].phase = "Reading"]
  /\ UNCHANGED <<ds, server, store, client>>

\* Accept of a loop that awaits handle_client itself instead of spawning it.
AcceptAwaitsHandler(c) ==
  /\ server = "Listening"
  /\ conn[c].phase = "Idle"
  /\ \A d \in Conns \ {c} : conn[d].phase \in {"Idle", "Closed"}
  /\ conn' = [conn EXCEPT ![c].phase = "Reading"]
  /\ UNCHANGED <<ds, server, store, client>>

\* listener.accept() and tokio::spawn(handle_client(socket, &partition))
Accept(c) ==
  /\ server = "Listening"
  /\ conn[c].phase = "Idle"
  /\ conn' = [conn EXCEPT ![c].phase = "Reading",
                          ![c].busyAtAccept =
                            \E d \in Conns \ {c} :
                              conn[d].phase \in {"Reading", "Blocking", "Writing"}]
  /\ UNCHANGED <<ds, server, store, client>>

--------------------------------------------------------------------------
\* handle_client

\* FramedNext of a stream that goes on decoding after a decode error.
FramedNextResumes(errored) == {"frame", "error", "none"}

\* framed.next().await: what the stream may yield.  handle_client has no
\* break of its own after a decode error: it polls again, and Framed
\* (tokio_util::codec) yields None on the poll that follows a decoder error.
FramedNext(errored) ==
  IF errored THEN {"none"} ELSE {"frame", "error", "none"}

\* RecvFrame in a process that a panic of one task brings down: a panic of
\* handle_command ends every connection.
RecvFramePanicAborts(c, frame) ==
  /\ conn[c].phase = "Reading"
  /\ "frame" \in FramedNext(conn[c].errored)
  /\ LET d == HandleCommand(frame)
         base == [conn[c] EXCEPT !.req = frame, !.pre = store, !.owed = TRUE,
                                 !.late = conn[c].errored]
     IN conn' =
          IF d.kind = "panic"
          THEN [e \in Conns |->
                  IF e = c
                  THEN [base EXCEPT !.phase = "Closed", !.exit = "panic"]
                  ELSE [conn[e] EXCEPT !.phase = "Closed", !.exit = "panic"]]
          ELSE IF d.kind = "reply"
          THEN [conn EXCEPT ![c] =
                  [base EXCEPT !.phase = "Writing", !.reply = d.reply]]
          ELSE [conn EXCEPT ![c] =
                  [base EXCEPT !.phase = "Blocking", !.job = d.job]]
  /\ UNCHANGED <<ds, server, store, client>>

\* Ok(frame) => handle_command(frame, partition), up to its first await
RecvFrame(c, frame) ==
  /\ conn[c].phase = "Reading"
  /\ "frame" \in FramedNext(conn[c].errored)
  /\ LET d == HandleCommand(frame)
         base == [conn[c] EXCEPT !.req = frame, !.pre = store, !.owed = TRUE,
                                 !.late = conn[c].errored]
     IN conn' = [conn EXCEPT ![c] =
          IF d.kind = "panic"
          THEN [base EXCEPT !.phase = "Closed", !.exit = "panic"]
          ELSE IF d.kind = "reply"
          THEN [base EXCEPT !.phase = "Writing", !.reply = d.reply]
          ELSE [base EXCEPT !.phase = "Blocking", !.job = d.job]]
  /\ UNCHANGED <<ds, server, store, client>>

\* Err(e) => the reply BytesFrame::Error(format!("ERR {:?}", e))
RecvError(c) ==
  /\ conn[c].phase = "Reading"
  /\ "error" \in FramedNext(conn[c].errored)
  /\ conn' = [conn EXCEPT ![c].phase = "Writing", ![c].errored = TRUE,
                          ![c].reply = DecodeErrorReply]
  /\ UNCHANGED <<ds, server, store, client>>

\* framed.next() yields None: the loop ends and handle_client returns Ok(())
RecvNone(c) ==
  /\ conn[c].phase = "Reading"
  /\ "none" \in FramedNext(conn[c].errored)
  /\ conn' = [conn EXCEPT ![c].phase = "Closed", ![c].exit = "ok"]
  /\ UNCHANGED <<ds, server, store, client>>

\* What the peers know about key k once request req has been answered by
\* reply, given what they knew before: a SET answered OK sets it; a DEL that
\* names it and is answered with the count of its keys deletes a key known to
\* be set; a DEL answered with another count leaves it unknown.
Told(req, reply, k, before) ==
  LET cmds == req.elems
      name == CommandName(cmds[1].bytes)
  IN
  IF name = Str_SET /\ reply = SimpleString(<<79, 75>>) /\ cmds[2].bytes = k
  THEN [st |-> "set", val |-> cmds[3].bytes]
  ELSE IF /\ name = Str_DEL
          /\ reply.type = "Integer"
          /\ \E i \in 2..Len(cmds) : cmds[i] = BulkString(k)
  THEN IF reply.int = Len(BulkKeys(Tail(cmds))) /\ before.st = "set"
       THEN [st |-> "deleted", val |-> <<>>]
       ELSE IF reply.int = Len(BulkKeys(Tail(cmds))) THEN before
       ELSE UntoldKey
  ELSE before

\* Storage of a pool that drops the calls of a connection whose peer has
\* closed: the closure is cancelled and handle_command sees a JoinError.
StorageCancelledWhenPeerGone(c, outcome) ==
  /\ conn[c].phase = "Blocking"
  /\ conn[c].job.keys # <<>>
  /\ LET r == IF conn[c].peerGone
              THEN [store |-> store,
                    job |-> [conn[c].job EXCEPT !.keys = <<>>, !.fail = "join"]]
              ELSE StorageCall(store, conn[c].job, outcome)
     IN /\ store' = r.store
        /\ conn' = [conn EXCEPT ![c].job = r.job,
                                ![c].calls = @ + 1,
                                ![c].oks = IF outcome = "ok" THEN @ + 1 ELSE @]
  /\ UNCHANGED <<ds, server, client>>

\* One storage call of the closure on the blocking pool.
Storage(c, outcome) ==
  /\ conn[c].phase = "Blocking"
  /\ conn[c].job.keys # <<>>
  /\ LET r == StorageCall(store, conn[c].job, outcome)
     IN /\ store' = r.store
        /\ conn' = [conn EXCEPT ![c].job = r.job,
                                ![c].calls = @ + 1,
                                ![c].oks = IF outcome = "ok" THEN @ + 1 ELSE @]
  /\ UNCHANGED <<ds, server, client>>

\* The closure returns and handle_command returns the reply.
Complete(c) ==
  /\ conn[c].phase = "Blocking"
  /\ conn[c].job.keys = <<>>
  /\ LET r == JobReply(conn[c].job)
     IN /\ conn' = [conn EXCEPT ![c].phase = "Writing", ![c].reply = r]
        /\ client' = [k \in ByteStrings |-> Told(conn[c].req, r, k, client[k])]
  /\ UNCHANGED <<ds, server, store>>

\* Send of a handler that returns once it has written an Error reply.
SendClosesOnError(c, ok) ==
  /\ conn[c].phase = "Writing"
  /\ conn' = [conn EXCEPT ![c] =
       IF ok /\ conn[c].reply.type # "Error"
       THEN [conn[c] EXCEPT !.phase = "Reading",
                            !.req = Null, !.pre = EmptyStore, !.job = NoJob,
                            !.reply = Null, !.owed = FALSE,
                            !.calls = 0, !.oks = 0, !.goneInCall = FALSE,
                            !.prevError = FALSE,
                            !.errReplies = IF conn[c].errored THEN @ + 1 ELSE @]
       ELSE [conn[c] EXCEPT !.phase = "Closed",
                            !.exit = IF ok THEN "ok" ELSE "err",
                            !.req = Null, !.pre = EmptyStore, !.job = NoJob,
                            !.reply = Null, !.calls = 0, !.oks = 0,
                            !.goneInCall = FALSE, !.prevError = FALSE]]
  /\ UNCHANGED <<ds, server, store, client>>

\* Send of a handler that drops the result of framed.send and reads on.
SendIgnoresFailure(c, ok) ==
  /\ conn[c].phase = "Writing"
  /\ conn' = [conn EXCEPT ![c] =
       [conn[c] EXCEPT !.phase = "Reading",
                       !.writeFailed = @ \/ ~ok,
                       !.req = Null, !.pre = EmptyStore, !.job = NoJob,
                       !.reply = Null, !.owed = FALSE,
                       !.calls = 0, !.oks = 0, !.goneInCall = FALSE,
                       !.prevError =
                         conn[c].owed /\ conn[c].reply.type = "Error",
                       !.errReplies = IF conn[c].errored THEN @ + 1 ELSE @]]
  /\ UNCHANGED <<ds, server, store, client>>

\* framed.send(response).await?
Send(c, ok) ==
  /\ conn[c].phase = "Writing"
  /\ conn' = [conn EXCEPT ![c] =
       IF ok
       THEN [conn[c] EXCEPT !.phase = "Reading",
                            !.req = Null, !.pre = EmptyStore, !.job = NoJob,
                            !.reply = Null, !.owed = FALSE,
                            !.calls = 0, !.oks = 0, !.goneInCall = FALSE,
                            !.prevError =
                              conn[c].owed /\ conn[c].reply.type = "Error",
                            !.errReplies = IF conn[c].errored THEN @ + 1 ELSE @]
       ELSE [conn[c] EXCEPT !.phase = "Closed", !.exit = "err",
                            !.writeFailed = TRUE, !.job = NoJob,
                            !.reply = Null, !.calls = 0, !.oks = 0,
                            !.goneInCall = FALSE, !.prevError = FALSE]]
  /\ UNCHANGED <<ds, server, store, client>>

\* The peer closes its end of the socket.  The task learns of it only from
\* its next read or write; frames the peer sent before may still be decoded.
PeerClose(c) ==
  /\ conn[c].phase \in {"Reading", "Blocking", "Writing"}
  /\ ~conn[c].peerGone
  /\ conn' = [conn EXCEPT ![c].peerGone = TRUE,
                          ![c].goneInCall =
                            conn[c].phase = "Blocking" /\ conn[c].job.keys # <<>>]
  /\ UNCHANGED <<ds, server, store, client>>

--------------------------------------------------------------------------
\* DataStorePartition (datastore.rs)

\* DataStorePartition::new(partition_handle): an Arc of a new partition
DataStorePartition_new ==
  /\ ds.handle[1] = 0
  /\ ds' = [ds EXCEPT !.handle[1] = 1]
  /\ UNCHANGED <<server, store, conn, client>>

\* #[derive(Clone)] on a struct that holds an Arc: the clone g of h points
\* to the partition h points to.
Clone(d, h, g) == [d EXCEPT !.handle[g] = d.handle[h]]

DataStorePartition_clone(h, g) ==
  /\ ds.handle[h] # 0
  /\ ds.handle[g] = 0
  /\ ds' = Clone(ds, h, g)
  /\ UNCHANGED <<server, store, conn, client>>

\* set: self.partition_handle.insert(key, value)
DataStorePartition_set(h, key, value) ==
  /\ ds.handle[h] # 0
  /\ ds' = [ds EXCEPT
              !.parts[ds.handle[h]] = Insert(@, key, value),
              !.last[key] = [st |-> "set", val |-> value, by |-> h]]
  /\ UNCHANGED <<server, store, conn, client>>

\* delete: self.partition_handle.remove(key)
DataStorePartition_delete(h, key) ==
  /\ ds.handle[h] # 0
  /\ ds' = [ds EXCEPT
              !.parts[ds.handle[h]] = Remove(@, key),
              !.last[key] = [st |-> "deleted", val |-> <<>>, by |-> h]]
  /\ UNCHANGED <<server, store, conn, client>>

\* exists that looks for a value that is not empty.
ExistsNonEmpty(d, h, key) ==
  LET opt == d.parts[d.handle[h]][key] IN opt.some /\ opt.val # <<>>

\* get: self.partition_handle.get(key).map(|opt| opt.map(|v| v.to_vec()))
DataStorePartition_get(d, h, key) == d.parts[d.handle[h]][key]

\* exists: self.get(key).map(|opt| opt.is_some())
DataStorePartition_exists(d, h, key) == DataStorePartition_get(d, h, key).some

\* A get and an exists of key through handle h, between two other calls.
DataStorePartition_read(h, key) ==
  /\ ds.handle[h] # 0
  /\ ds' = [ds EXCEPT !.read =
              [done |-> TRUE, h |-> h, key |-> key,
               get |-> DataStorePartition_get(ds, h, key),
               exists |-> DataStorePartition_exists(ds, h, key),
               last |-> ds.last[key]]]
  /\ UNCHANGED <<server, store, conn, client>>

--------------------------------------------------------------------------
\* Specifications.

Startup ==
  \E ok \in BOOLEAN : InitKeyspace(ok) \/ CreatePartition(ok) \/ Bind(ok)

HandleClient(cs, frames, outcomes) ==
  \E c \in cs :
    \/ Accept(c)
    \/ \E f \in frames : RecvFrame(c, f)
    \/ RecvError(c)
    \/ RecvNone(c)
    \/ \E o \in outcomes : Storage(c, o)
    \/ Complete(c)
    \/ \E ok \in BOOLEAN : Send(c, ok)

\* One connection, every request, storage calls that succeed.
Next == Startup \/ HandleClient({1}, Frames, {"ok"})

Spec == Init /\ [][Next]_vars

\* Requests on the keys "" and "a" only.
FaultArgLists ==
  UNION {[1..n -> {BulkString(<<>>), BulkString(<<97>>), IntegerArg}] :
           n \in 0..MaxArgs}

FaultFrames ==
  {Array(<<>>), IntegerArg}
    \cup {Array(<<BulkString(n)>> \o as) :
            n \in {Str_PING, Str_SET, Str_GET, Str_DEL, Str_EXISTS, Str_MGET,
                   Str_foo},
            as \in FaultArgLists}

\* One connection, requests on two keys, storage calls that may fail.
NextFault == Startup \/ HandleClient({1}, FaultFrames, {"ok", "err", "panic"})

SpecFault == Init /\ [][NextFault]_vars

\* The keys of each connection when the connections use disjoint key sets:
\* connection 1 uses "a", connection 2 uses "A".
KeysOf(c) == IF c = 1 THEN {<<97>>} ELSE {<<65>>}

\* SET (of the empty value and of "a"), GET and DEL on the connection's own
\* keys, and a frame that is not an Array.
ConcFrames(c) ==
  {IntegerArg}
    \cup {Array(<<BulkString(Str_SET), BulkString(k), BulkString(v)>>) :
            k \in KeysOf(c), v \in {<<>>, <<97>>}}
    \cup {Array(<<BulkString(n), BulkString(k)>>) :
            n \in {Str_GET, Str_DEL}, k \in KeysOf(c)}

\* Two connections on disjoint key sets, in every interleaving of their
\* steps, with peers that may close at any time.
NextConc ==
  \/ Startup
  \/ HandleClient({1}, ConcFrames(1), {"ok"})
  \/ HandleClient({2}, ConcFrames(2), {"ok"})
  \/ \E c \in Conns : PeerClose(c)

SpecConc == Init /\ [][NextConc]_vars

\* Every sequence of set, delete, get and exists calls on a
\* DataStorePartition and on a clone of it, calls that return Ok.
NextPartition ==
  \/ DataStorePartition_new
  \/ \E h \in Handles, g \in Handles : DataStorePartition_clone(h, g)
  \/ \E h \in Handles, k \in ByteStrings, v \in ByteStrings :
       DataStorePartition_set(h, k, v)
  \/ \E h \in Handles, k \in ByteStrings : DataStorePartition_delete(h, k)
  \/ \E h \in Handles, k \in ByteStrings : DataStorePartition_read(h, k)

SpecPartition == Init /\ [][NextPartition]_vars

--------------------------------------------------------------------------
\* Reading a request and its reply off a connection.

\* Connection c has called handle_command on a request and holds its reply.
Answered(c) == conn[c].phase = "Writing" /\ conn[c].owed

\* Frame f is an Array whose first element is a string naming command name,
\* in any letter case.
IsCommand(f, name) ==
  /\ f.type = "Array"
  /\ f.elems # <<>>
  /\ f.elems[1].type \in {"BulkString", "SimpleString"}
  /\ ToAsciiUppercase(f.elems[1].bytes) = name

ArgsOf(f) == IF f.type = "Array" /\ f.elems # <<>> THEN Tail(f.elems) ELSE <<>>

AllBulk(fs) == \A i \in 1..Len(fs) : fs[i].type = "BulkString"

--------------------------------------------------------------------------
\* C1: once a SET of key k with value v has been answered OK, a GET of k
\* (with no SET or DEL of k answered in between) is answered BulkString(v),
\* v unchanged, the empty value included; after a second SET it is the second
\* value.  client[k] holds the value of the last SET of k answered OK.
C1_RoundTrip ==
  \A c \in Conns : \A k \in ByteStrings :
    (/\ Answered(c)
     /\ IsCommand(conn[c].req, Str_GET)
     /\ ArgsOf(conn[c].req) = <<BulkString(k)>>
     /\ client[k].st = "set")
    => conn[c].reply = BulkString(client[k].val)

\* A GET of a key whose last SET stored the empty value is being answered
\* with the empty bulk string.
C1_Witness ==
  \E c \in Conns : \E k \in ByteStrings :
    /\ Answered(c)
    /\ IsCommand(conn[c].req, Str_GET)
    /\ ArgsOf(conn[c].req) = <<BulkString(k)>>
    /\ client[k] = [st |-> "set", val |-> <<>>]
    /\ conn[c].reply = BulkString(<<>>)

--------------------------------------------------------------------------
\* The number of keys of the list that are present in partition st when their
\* turn to be removed comes (a key named twice is present once).
RECURSIVE PresentCount(_, _)
PresentCount(keys, st) ==
  IF keys = <<>> THEN 0
  ELSE (IF st[Head(keys)].some THEN 1 ELSE 0)
       + PresentCount(Tail(keys), [st EXCEPT ![Head(keys)] = None])

\* C2: DEL is answered with the Integer that counts the named keys that were
\* present in the store and were removed; a key that was never set does not
\* count.
C2_DelCountsPresentKeys ==
  \A c \in Conns :
    (/\ Answered(c)
     /\ IsCommand(conn[c].req, Str_DEL)
     /\ Len(ArgsOf(conn[c].req)) >= 1
     /\ AllBulk(ArgsOf(conn[c].req)))
    => conn[c].reply =
         Integer(PresentCount(BulkKeys(ArgsOf(conn[c].req)), conn[c].pre))

--------------------------------------------------------------------------
\* C3: once a DEL naming a key k that was set has been answered, every GET
\* of k is answered Null and every EXISTS of k is answered Integer 0, until
\* k is SET again; and this for every key the DEL names.
C3_DeletedKeyIsGone ==
  \A c \in Conns : \A k \in ByteStrings :
    (/\ Answered(c)
     /\ ArgsOf(conn[c].req) = <<BulkString(k)>>
     /\ client[k].st = "deleted")
    => /\ IsCommand(conn[c].req, Str_GET) => conn[c].reply = Null
       /\ IsCommand(conn[c].req, Str_EXISTS) => conn[c].reply = Integer(0)

\* An EXISTS of a key is being answered 0 while two keys are known deleted
\* (both named by DEL requests after they were set).
C3_Witness ==
  \E c \in Conns : \E k, k2 \in ByteStrings :
    /\ k # k2
    /\ Answered(c)
    /\ IsCommand(conn[c].req, Str_EXISTS)
    /\ ArgsOf(conn[c].req) = <<BulkString(k)>>
    /\ client[k].st = "deleted"
    /\ client[k2].st = "deleted"
    /\ conn[c].reply = Integer(0)

--------------------------------------------------------------------------
\* C4: an MGET whose arguments are all BulkString keys k1..kn, n >= 1, and
\* whose reads all succeed is answered with an Array of exactly n elements,
\* element i being BulkString(stored value of ki) when ki is present and Null
\* when it is absent, in request order.
C4_MgetInOrder ==
  \A c \in Conns :
    (/\ Answered(c)
     /\ IsCommand(conn[c].req, Str_MGET)
     /\ Len(ArgsOf(conn[c].req)) >= 1
     /\ AllBulk(ArgsOf(conn[c].req))
     /\ conn[c].job.fail = "none")
    => LET args == ArgsOf(conn[c].req)
           r == conn[c].reply
       IN /\ r.type = "Array"
          /\ Len(r.elems) = Len(args)
          /\ \A i \in 1..Len(args) :
               r.elems[i] =
                 IF conn[c].pre[args[i].bytes].some
                 THEN BulkString(conn[c].pre[args[i].bytes].val)
                 ELSE Null

\* An MGET of a present key followed by an absent key is being answered with
\* the value, then Null.
C4_Witness ==
  \E c \in Conns :
    /\ Answered(c)
    /\ IsCommand(conn[c].req, Str_MGET)
    /\ Len(ArgsOf(conn[c].req)) = 2
    /\ AllBulk(ArgsOf(conn[c].req))
    /\ conn[c].pre[ArgsOf(conn[c].req)[1].bytes].some
    /\ ~conn[c].pre[ArgsOf(conn[c].req)[2].bytes].some
    /\ conn[c].reply.type = "Array"
    /\ conn[c].reply.elems[2] = Null

--------------------------------------------------------------------------
\* The commands that take arguments, and whether a list of n arguments has
\* the right length for the command.
ArgCommands == {Str_SET, Str_GET, Str_EXISTS, Str_DEL, Str_MGET}

ArityOk(name, n) ==
  IF name = Str_SET THEN n = 2
  ELSE IF name \in {Str_GET, Str_EXISTS} THEN n = 1
  ELSE n >= 1

\* A request is outstanding on connection c: handle_command was called on
\* conn[c].req, its reply has not been written and no write has failed.
Outstanding(c) == conn[c].owed /\ ~conn[c].writeFailed

\* C5: a request of SET, GET, EXISTS, DEL or MGET (with the right number of
\* arguments) one of whose arguments is not a BulkString is answered with
\* Error "ERR Invalid key type" or "ERR Invalid value type", and no storage
\* call is made for it.
C5_NonBulkArgRejected ==
  \A c \in Conns : \A name \in ArgCommands :
    (/\ Outstanding(c)
     /\ IsCommand(conn[c].req, name)
     /\ ArityOk(name, Len(ArgsOf(conn[c].req)))
     /\ ~AllBulk(ArgsOf(conn[c].req)))
    => /\ conn[c].phase = "Writing"
       /\ conn[c].reply \in {ErrorText("ERR Invalid key type"),
                             ErrorText("ERR Invalid value type")}
       /\ conn[c].job = NoJob
       /\ store = conn[c].pre

--------------------------------------------------------------------------
\* C6: a request frame that is not an Array is answered with Error
\* "ERR invalid command type"; handle_command returns a reply for every
\* frame and never aborts the connection's task.
C6_NonArrayAnswered ==
  \A c \in Conns :
    (Outstanding(c) /\ conn[c].req.type # "Array")
    => /\ conn[c].phase = "Writing"
       /\ conn[c].reply = ErrorText("ERR invalid command type")
       /\ conn[c].exit # "panic"

--------------------------------------------------------------------------
KnownCommands == ArgCommands \cup {Str_PING}

\* C7: a request whose name matches no command, in any letter case, is
\* answered with Error "ERR unknown command '<name>'", <name> being the name
\* as it was received, and the store is unchanged.
C7_UnknownNameAsReceived ==
  \A c \in Conns :
    (/\ Outstanding(c)
     /\ conn[c].req.type = "Array"
     /\ conn[c].req.elems # <<>>
     /\ conn[c].req.elems[1].type \in {"BulkString", "SimpleString"}
     /\ ToAsciiUppercase(conn[c].req.elems[1].bytes) \notin KnownCommands)
    => /\ conn[c].phase = "Writing"
       /\ conn[c].reply =
            Error("ERR unknown command '{}'", conn[c].req.elems[1].bytes)
       /\ store = conn[c].pre

--------------------------------------------------------------------------
WrongArity(name) ==
  IF name = Str_SET THEN ErrorText("ERR Wrong number of arguments for SET")
  ELSE IF name = Str_GET THEN ErrorText("ERR Wrong number of arguments for GET")
  ELSE IF name = Str_EXISTS
  THEN ErrorText("ERR Wrong number of arguments for EXISTS")
  ELSE IF name = Str_DEL THEN ErrorText("ERR Wrong number of arguments for DEL")
  ELSE ErrorText("ERR Wrong number of arguments for MGET")

\* C8: a request with the wrong number of arguments (SET with other than 2,
\* GET or EXISTS with other than 1, DEL or MGET with none) is answered with
\* Error "ERR Wrong number of arguments for <COMMAND>", whatever the types of
\* its arguments, and no storage call is made: the store is unchanged.
C8_ArityFirst ==
  \A c \in Conns : \A name \in ArgCommands :
    (/\ Outstanding(c)
     /\ IsCommand(conn[c].req, name)
     /\ ~ArityOk(name, Len(ArgsOf(conn[c].req))))
    => /\ conn[c].phase = "Writing"
       /\ conn[c].reply = WrongArity(name)
       /\ conn[c].job = NoJob
       /\ store = conn[c].pre

\* A SET, in lower case, with one argument that is not a BulkString is being
\* answered with the arity error, in a store that holds a key.
C8_Witness ==
  \E c \in Conns :
    /\ Answered(c)
    /\ conn[c].req = Array(<<BulkString(Str_set), IntegerArg>>)
    /\ conn[c].reply = ErrorText("ERR Wrong number of arguments for SET")
    /\ \E k \in ByteStrings : store[k].some

--------------------------------------------------------------------------
\* C9: each decoded request gets exactly one reply, written before the next
\* request is dispatched: while the task waits for the next frame no reply
\* is owed, and a task that ended without a failed write owes none.
C9_OneReplyPerRequest ==
  \A c \in Conns :
    /\ conn[c].phase = "Reading" => ~conn[c].owed
    /\ (conn[c].phase = "Closed" /\ conn[c].exit # "err") => ~conn[c].owed

--------------------------------------------------------------------------
\* C10: after a decode error the connection writes at most one Error reply,
\* the one describing the failure, dispatches no further frame and can only
\* close.
C10_DecodeErrorEnds ==
  \A c \in Conns :
    /\ ~conn[c].late
    /\ conn[c].errReplies <= 1
    /\ conn[c].errored =>
         /\ conn[c].phase \in {"Writing", "Reading", "Closed"}
         /\ ~conn[c].owed
         /\ conn[c].phase = "Writing" => conn[c].reply = DecodeErrorReply
         /\ conn[c].phase = "Reading" => conn[c].errReplies = 1

\* A connection has written its decode-error reply and closed.
C10_Witness ==
  \E c \in Conns :
    /\ conn[c].errored
    /\ conn[c].errReplies = 1
    /\ conn[c].phase = "Closed"
    /\ conn[c].exit = "ok"

--------------------------------------------------------------------------
\* C11: an Error reply to a request, whether a command-level error or a
\* failed storage call, does not end the connection.  A request that is an
\* Array is never the end of the task when it is dispatched; a job whose
\* storage call failed ends in an Error reply being written; and the step
\* that follows an Error reply either is a failed write or leaves the
\* connection reading, its stream able to yield the next frame.
C11_ErrorKeepsConnection ==
  [][\A c \in Conns :
       /\ (conn[c].phase = "Reading" /\ conn'[c].owed
             /\ conn'[c].req.type = "Array")
            => conn'[c].phase \in {"Writing", "Blocking"}
       /\ (conn[c].phase = "Blocking" /\ conn'[c].phase # "Blocking")
            => /\ conn'[c].phase = "Writing"
               /\ conn[c].job.fail # "none" => conn'[c].reply.type = "Error"
       /\ (Answered(c) /\ conn[c].reply.type = "Error" /\ conn'[c] # conn[c])
            => \/ /\ conn'[c].phase = "Reading"
                  /\ "frame" \in FramedNext(conn'[c].errored)
               \/ conn'[c].phase = "Closed" /\ conn'[c].exit = "err"]_vars

\* After an Error reply, the next request on the connection, a SET, is
\* answered OK and its value is in the store.
C11_Witness ==
  \E c \in Conns :
    /\ conn[c].prevError
    /\ Answered(c)
    /\ IsCommand(conn[c].req, Str_SET)
    /\ conn[c].reply = SimpleString(<<79, 75>>)
    /\ store[conn[c].req.elems[2].bytes] = Some(conn[c].req.elems[3].bytes)

--------------------------------------------------------------------------
\* C12: with the two connections on disjoint key sets, in every interleaving
\* a GET of a key is answered with the value of the latest SET of that key
\* that the same connection completed, and the store holds for each key
\* exactly what its own connection's answered SETs put there (outside the
\* storage call of that connection): no connection's commands change a key
\* of the other connection or a key of neither.
C12_DisjointKeysIsolated ==
  /\ \A c \in Conns : \A k \in KeysOf(c) :
        /\ (/\ Answered(c)
            /\ IsCommand(conn[c].req, Str_GET)
            /\ conn[c].req.elems[2] = BulkString(k)
            /\ client[k].st = "set")
           => conn[c].reply = BulkString(client[k].val)
        /\ conn[c].phase # "Blocking"
           => store[k] = IF client[k].st = "set"
                         THEN Some(client[k].val) ELSE None
  /\ \A k \in ByteStrings \ UNION {KeysOf(c) : c \in Conns} :
        store[k] = None

\* Both connections have set their keys, to different values; connection 1
\* is answered its own value while connection 2 is inside a storage call.
C12_Witness ==
  /\ client[<<97>>].st = "set"
  /\ client[<<65>>].st = "set"
  /\ client[<<97>>].val # client[<<65>>].val
  /\ Answered(1)
  /\ IsCommand(conn[1].req, Str_GET)
  /\ conn[1].reply = BulkString(client[<<97>>].val)
  /\ conn[2].phase = "Blocking"
  /\ IsCommand(conn[2].req, Str_SET)

--------------------------------------------------------------------------
\* C13: a step in which the task of one connection ends (on a decode
\* failure or the peer's close, on a failed write, or on a panic of the
\* dispatcher) leaves the store, the listening server and the state of every
\* other connection unchanged, so the other connections go on exactly as
\* they would have.
C13_TerminationIsolated ==
  [][\A c \in Conns :
       (conn[c].phase # "Closed" /\ conn'[c].phase = "Closed")
         => /\ store' = store
            /\ server' = server
            /\ client' = client
            /\ \A d \in Conns \ {c} : conn'[d] = conn[d]]_vars

\* Connection 1 ended in a panic of the dispatcher; connection 2 was
\* accepted after that (no other task was running at either accept) and
\* its SET is answered OK, with the value in the store.
C13_Witness ==
  /\ conn[1].phase = "Closed"
  /\ conn[1].exit = "panic"
  /\ ~conn[1].busyAtAccept
  /\ ~conn[2].busyAtAccept
  /\ Answered(2)
  /\ IsCommand(conn[2].req, Str_SET)
  /\ conn[2].reply = SimpleString(<<79, 75>>)
  /\ store[<<65>>] = Some(conn[2].req.elems[3].bytes)

--------------------------------------------------------------------------
\* C14: an MGET one of whose reads returns an error makes no read after the
\* failing one, and is answered with the single Error "ERR MGET error: .."
\* and never with an Array.
C14_MgetStopsAtFailure ==
  \A c \in Conns :
    (/\ Outstanding(c)
     /\ IsCommand(conn[c].req, Str_MGET)
     /\ conn[c].oks < conn[c].calls
     /\ conn[c].job.fail # "join")
    => /\ conn[c].calls = conn[c].oks + 1
       /\ conn[c].job.keys = <<>>
       /\ conn[c].phase \in {"Blocking", "Writing"}
       /\ conn[c].phase = "Writing"
            => conn[c].reply = ErrorText("ERR MGET error: {:?}")

\* An MGET of two keys whose first read failed is answered with the Error
\* after that one read.
C14_Witness ==
  \E c \in Conns :
    /\ Answered(c)
    /\ IsCommand(conn[c].req, Str_MGET)
    /\ Len(BulkKeys(ArgsOf(conn[c].req))) = 2
    /\ conn[c].calls = 1
    /\ conn[c].oks = 0
    /\ conn[c].reply = ErrorText("ERR MGET error: {:?}")

--------------------------------------------------------------------------
\* C15: a DEL some of whose remove calls return an error still calls remove
\* for every one of its keys, and is answered with an Integer, the number
\* of its remove calls that returned Ok.  (A closure that panics is not a
\* remove that returned an error: it is answered "ERR task error: ..".)
C15_DelToleratesFailure ==
  \A c \in Conns :
    (/\ Outstanding(c)
     /\ IsCommand(conn[c].req, Str_DEL)
     /\ ArgsOf(conn[c].req) # <<>>
     /\ conn[c].job.fail # "join")
    => /\ conn[c].phase \in {"Blocking", "Writing"}
       /\ conn[c].calls + Len(conn[c].job.keys)
            = Len(BulkKeys(ArgsOf(conn[c].req)))
       /\ conn[c].phase = "Writing"
            => /\ conn[c].reply = Integer(conn[c].oks)
               /\ conn[c].calls = Len(BulkKeys(ArgsOf(conn[c].req)))

\* A DEL of two keys whose first remove failed and whose second succeeded
\* is answered Integer 1 after two calls.
C15_Witness ==
  \E c \in Conns :
    /\ Answered(c)
    /\ IsCommand(conn[c].req, Str_DEL)
    /\ Len(BulkKeys(ArgsOf(conn[c].req))) = 2
    /\ conn[c].calls = 2
    /\ conn[c].oks = 1
    /\ conn[c].job.deleted = 1
    /\ conn[c].pre[ArgsOf(conn[c].req)[1].bytes].some
    /\ store[ArgsOf(conn[c].req)[1].bytes].some
    /\ conn[c].reply = Integer(1)

--------------------------------------------------------------------------
\* C16: a storage call that is pending on the blocking pool when the peer
\* closes the connection still runs.  The task stays in the call until the
\* closure has returned; a SET is then answered OK with its value in the
\* store, a DEL is answered the count of its keys with the key gone.  (The
\* reply is lost with the failed write or the end of the stream, steps
\* that touch no other connection.)
C16_PendingCallCompletes ==
  \A c \in Conns :
    (conn[c].goneInCall /\ Outstanding(c))
    => /\ conn[c].phase \in {"Blocking", "Writing"}
       /\ (conn[c].phase = "Writing" /\ IsCommand(conn[c].req, Str_SET))
            => /\ conn[c].reply = SimpleString(<<79, 75>>)
               /\ store[conn[c].req.elems[2].bytes]
                    = Some(conn[c].req.elems[3].bytes)
       /\ (conn[c].phase = "Writing" /\ IsCommand(conn[c].req, Str_DEL))
            => /\ conn[c].reply = Integer(1)
               /\ store[conn[c].req.elems[2].bytes] = None

\* The peer closed while a SET was pending; the SET has changed the store
\* and its reply is about to be written to the closed socket.
C16_Witness ==
  \E c \in Conns :
    /\ conn[c].goneInCall
    /\ Answered(c)
    /\ IsCommand(conn[c].req, Str_SET)
    /\ conn[c].pre[conn[c].req.elems[2].bytes]
         # Some(conn[c].req.elems[3].bytes)
    /\ store[conn[c].req.elems[2].bytes] = Some(conn[c].req.elems[3].bytes)

--------------------------------------------------------------------------
\* C17: the accept loop does not wait for a handler.  While the server is
\* listening, a connection that has not been accepted can be accepted in
\* whatever phase (reading, in a storage call, writing) the handlers of the
\* other connections are.
C17_AcceptNeverWaits ==
  \A c \in Conns :
    (server = "Listening" /\ conn[c].phase = "Idle") => ENABLED Accept(c)

\* A connection was accepted while the handler of the other one was
\* running, and is now answered by the shared store while that handler is
\* inside a storage call.
C17_Witness ==
  \E c \in Conns : \E d \in Conns \ {c} :
    /\ conn[c].busyAtAccept
    /\ ~conn[d].busyAtAccept
    /\ Answered(c)
    /\ IsCommand(conn[c].req, Str_SET)
    /\ conn[c].reply = SimpleString(<<79, 75>>)
    /\ conn[d].phase = "Blocking"

--------------------------------------------------------------------------
\* C18: a connection has been accepted only if the keyspace and the
\* partition were opened and the listener bound (the server is listening);
\* where one of the three failed the process has exited with no connection
\* accepted and no handler spawned.
C18_NoAcceptBeforeStartup ==
  /\ (\E c \in Conns : conn[c].phase # "Idle") => server = "Listening"
  /\ server # "Listening" => store = EmptyStore

\* The process has exited on a failed startup step, no connection accepted.
C18_Witness ==
  /\ server = "Exited"
  /\ \A c \in Conns : conn[c] = IdleConn

--------------------------------------------------------------------------
\* C19: a PING with no arguments is answered SimpleString "PONG" whatever
\* the store holds, without a storage call and with the store as it was
\* when the request was dispatched.
C19_PingPong ==
  \A c \in Conns :
    (/\ Outstanding(c)
     /\ IsCommand(conn[c].req, Str_PING)
     /\ ArgsOf(conn[c].req) = <<>>)
    => /\ conn[c].phase = "Writing"
       /\ conn[c].reply = SimpleString(<<80, 79, 78, 71>>)
       /\ conn[c].job = NoJob
       /\ conn[c].calls = 0
       /\ store = conn[c].pre

\* A PING is answered PONG on a store that holds a key.
C19_Witness ==
  \E c \in Conns :
    /\ Answered(c)
    /\ conn[c].req = Array(<<BulkString(Str_PING)>>)
    /\ conn[c].reply = SimpleString(<<80, 79, 78, 71>>)
    /\ store # EmptyStore
    /\ store = conn[c].pre

--------------------------------------------------------------------------
\* The request f with the bytes of its command name replaced.
WithName(f, bytes) ==
  Array(<<[f.elems[1] EXCEPT !.bytes = bytes]>> \o Tail(f.elems))

LowerChar(b) == IF b \in 65..90 THEN b + 32 ELSE b

\* The name in lower case, in upper case, and capitalised.
CaseVariants(bytes) ==
  LET lower == [i \in 1..Len(bytes) |-> LowerChar(bytes[i])]
      upper == [i \in 1..Len(bytes) |-> UpperChar(bytes[i])]
  IN {lower, upper,
      [i \in 1..Len(bytes) |-> IF i = 1 THEN upper[i] ELSE lower[i]]}

\* handle_command of frame f on store st, run to its end with storage calls
\* that succeed: the store it leaves and the reply it returns.
RECURSIVE RunJob(_, _)
RunJob(st, j) ==
  IF j.keys = <<>> THEN [store |-> st, reply |-> JobReply(j)]
  ELSE LET r == StorageCall(st, j, "ok") IN RunJob(r.store, r.job)

Execute(st, f) ==
  LET d == HandleCommand(f)
  IN IF d.kind = "panic" THEN [store |-> st, reply |-> Null]
     ELSE IF d.kind = "reply" THEN [store |-> st, reply |-> d.reply]
     ELSE RunJob(st, d.job)

\* C20: the command name is matched in any letter case and the arguments
\* byte for byte.  An answered request has the reply and the store change
\* of the same request with its name in lower case, in upper case or
\* capitalised; a SET changes no key but the one whose bytes it names, and
\* a GET is answered from the key whose bytes it names, so that keys
\* differing in letter case are different keys.
C20_NameAnyCaseArgsExact ==
  \A c \in Conns :
    (/\ Answered(c)
     /\ conn[c].req.type = "Array"
     /\ conn[c].req.elems # <<>>
     /\ conn[c].req.elems[1].type \in {"BulkString", "SimpleString"})
    => LET req == conn[c].req
           k == req.elems[2].bytes
       IN /\ Execute(conn[c].pre, req)
               = [store |-> store, reply |-> conn[c].reply]
          /\ \A n \in CaseVariants(req.elems[1].bytes) :
                Execute(conn[c].pre, WithName(req, n))
                  = Execute(conn[c].pre, req)
          /\ (IsCommand(req, Str_SET) /\ Len(req.elems) = 3
                /\ AllBulk(ArgsOf(req)))
               => \A k2 \in ByteStrings \ {k} : store[k2] = conn[c].pre[k2]
          /\ (IsCommand(req, Str_GET) /\ Len(req.elems) = 2
                /\ AllBulk(ArgsOf(req)))
               => conn[c].reply = ValueFrame(conn[c].pre[k])

\* A request named "set" has stored a value under "a" and is answered OK,
\* as "SET" would be, and the key "A" is still absent.
C20_Witness ==
  \E c \in Conns :
    /\ Answered(c)
    /\ conn[c].req.type = "Array"
    /\ Len(conn[c].req.elems) = 3
    /\ conn[c].req.elems[1] = BulkString(Str_set)
    /\ conn[c].req.elems[2] = BulkString(<<97>>)
    /\ conn[c].reply = SimpleString(<<79, 75>>)
    /\ conn[c].pre[<<97>>] = None
    /\ store[<<97>>] = Some(conn[c].req.elems[3].bytes)
    /\ store[<<65>>] = None

--------------------------------------------------------------------------
\* C21: an empty Array is answered Error "ERR Empty command", and an Array
\* whose first element is neither a BulkString nor a SimpleString is
\* answered Error "ERR invalid command type"; neither makes a storage call
\* and the store is as it was when the request was dispatched.
C21_EmptyAndHeadTypeErrors ==
  \A c \in Conns :
    (/\ Outstanding(c)
     /\ conn[c].req.type = "Array"
     /\ \/ conn[c].req.elems = <<>>
        \/ conn[c].req.elems[1].type \notin {"BulkString", "SimpleString"})
    => /\ conn[c].phase = "Writing"
       /\ conn[c].reply =
            IF conn[c].req.elems = <<>>
            THEN ErrorText("ERR Empty command")
            ELSE ErrorText("ERR invalid command type")
       /\ conn[c].job = NoJob
       /\ conn[c].calls = 0
       /\ store = conn[c].pre

\* An empty Array is answered "ERR Empty command" on a store that holds a
\* key.
C21_Witness ==
  \E c \in Conns :
    /\ Answered(c)
    /\ conn[c].req = Array(<<>>)
    /\ conn[c].reply = ErrorText("ERR Empty command")
    /\ store # EmptyStore
    /\ store = conn[c].pre

--------------------------------------------------------------------------
\* C22: once a write of a reply has failed the connection is closed with
\* an error and stays so: the write is not retried and nothing more is
\* read or dispatched on it.  The store holds the whole effect of the
\* request whose reply could not be written.
C22_WriteFailureCloses ==
  \A c \in Conns :
    conn[c].writeFailed
    => /\ conn[c].phase = "Closed"
       /\ conn[c].exit = "err"
       /\ conn[c].owed => store = Execute(conn[c].pre, conn[c].req).store

\* The reply of a SET could not be written; the connection is closed and
\* the value, which was not there before, is in the store.
C22_Witness ==
  \E c \in Conns :
    /\ conn[c].writeFailed
    /\ conn[c].phase = "Closed"
    /\ IsCommand(conn[c].req, Str_SET)
    /\ Len(conn[c].req.elems) = 3
    /\ AllBulk(ArgsOf(conn[c].req))
    /\ conn[c].pre[conn[c].req.elems[2].bytes]
         # Some(conn[c].req.elems[3].bytes)
    /\ store[conn[c].req.elems[2].bytes] = Some(conn[c].req.elems[3].bytes)

--------------------------------------------------------------------------
\* C23: after any sequence of set and delete calls on a DataStorePartition
\* and its clone, exists(k) is true exactly when get(k) is Some; get(k) is
\* Some(v) for the v of the latest set(k, v) when no delete(k) followed it
\* and None otherwise; and both handles see the same contents, through
\* whichever of them the calls went.
C23_ExistsIffGetSome ==
  /\ ds.read.done =>
       /\ ds.read.exists = ds.read.get.some
       /\ ds.read.get = IF ds.read.last.st = "set"
                        THEN Some(ds.read.last.val) ELSE None
  /\ \A h \in Handles : \A k \in ByteStrings :
       ds.handle[h] # 0 =>
         /\ DataStorePartition_exists(ds, h, k)
              = DataStorePartition_get(ds, h, k).some
         /\ DataStorePartition_get(ds, h, k)
              = IF ds.last[k].st = "set" THEN Some(ds.last[k].val) ELSE None

\* The original handle has read the empty value that its clone set, and
\* exists was true; another key, set and then deleted, is absent.
C23_Witness ==
  /\ ds.read.done
  /\ ds.read.h = 1
  /\ ds.read.last = [st |-> "set", val |-> <<>>, by |-> 2]
  /\ ds.read.get = Some(<<>>)
  /\ ds.read.exists
  /\ \E k \in ByteStrings :
       /\ ds.last[k].st = "deleted"
       /\ ~DataStorePartition_exists(ds, 2, k)

--------------------------------------------------------------------------
\* C24: a request of GET, EXISTS or MGET, whatever its arguments, leaves
\* the store as it was when it was dispatched; and on the same store an
\* EXISTS of a key is answered Integer 1 exactly when the GET of that key
\* is answered a BulkString, and Integer 0 exactly when it is answered Null.
C24_ReadsLeaveStore ==
  \A c \in Conns :
    LET req == conn[c].req IN
    /\ (/\ Outstanding(c)
        /\ \/ IsCommand(req, Str_GET)
           \/ IsCommand(req, Str_EXISTS)
           \/ IsCommand(req, Str_MGET))
       => store = conn[c].pre
    /\ (/\ Answered(c)
        /\ IsCommand(req, Str_GET) \/ IsCommand(req, Str_EXISTS)
        /\ Len(req.elems) = 2
        /\ AllBulk(ArgsOf(req)))
       => LET get == Execute(conn[c].pre, WithName(req, Str_GET)).reply
              exists == Execute(conn[c].pre, WithName(req, Str_EXISTS)).reply
          IN /\ conn[c].reply = IF IsCommand(req, Str_GET) THEN get ELSE exists
             /\ exists \in {Integer(0), Integer(1)}
             /\ get.type \in {"BulkString", "Null"}
             /\ exists = Integer(1) <=> get.type = "BulkString"
             /\ exists = Integer(0) <=> get.type = "Null"

\* An EXISTS of a key that holds the empty value is answered Integer 1, the
\* store as before.
C24_Witness ==
  \E c \in Conns :
    /\ Answered(c)
    /\ IsCommand(conn[c].req, Str_EXISTS)
    /\ Len(conn[c].req.elems) = 2
    /\ AllBulk(ArgsOf(conn[c].req))
    /\ store[conn[c].req.elems[2].bytes] = Some(<<>>)
    /\ conn[c].reply = Integer(1)
    /\ store = conn[c].pre

--------------------------------------------------------------------------
\* C25: PING checks neither the number nor the type of its arguments: an
\* Array whose first element names PING is answered SimpleString "PONG"
\* whatever elements follow, and never an Error.
C25_PingIgnoresArguments ==
  \A c \in Conns :
    (Answered(c) /\ IsCommand(conn[c].req, Str_PING))
    => /\ conn[c].reply = SimpleString(<<80, 79, 78, 71>>)
       /\ conn[c].reply.type # "Error"
       /\ \A as \in ArgLists :
            HandleCommand(Array(<<conn[c].req.elems[1]>> \o as))
              = Reply(SimpleString(<<80, 79, 78, 71>>))

\* A PING followed by two elements, one of them an Integer, is answered
\* PONG.
C25_Witness ==
  \E c \in Conns :
    /\ Answered(c)
    /\ IsCommand(conn[c].req, Str_PING)
    /\ Len(conn[c].req.elems) = 3
    /\ \E i \in 2..3 : conn[c].req.elems[i] = IntegerArg
    /\ conn[c].reply = SimpleString(<<80, 79, 78, 71>>)

====
